---- MODULE Spec2Model ----
(***************************************************************************)
(* Model of checkpoint_quality_checker.py: main() and                      *)
(* validate_checkpoint_json(), the per-question rules and is_valid_url().  *)
(*                                                                         *)
(* JSON values are tagged records, because a field of a question may be    *)
(* absent, null, text, a list or a number.  Text that the code inspects    *)
(* character by character (the question, the image URL) is a sequence of   *)
(* one-character strings; text that the code only compares for equality    *)
(* (choices, answers, the type) is a TLA+ string.                          *)
(***************************************************************************)
EXTENDS Integers, Sequences, FiniteSets, TLC

\* ------------------------------------------------------------------ bounds
MaxQuestions == 3   \* longest list of questions in an input file
MaxBody == 7        \* longest question body (before padding with blanks)
MaxPad == 1         \* blanks put before and after a question body
MaxAnswers == 2     \* longest list-valued answer

\* ------------------------------------------------------- program constants
MinQuestionLen == 5
SeeImage == "See image for the answer"
Unknown == "Unknown"

\* ------------------------------------------------------------ JSON values
Spaces(n) == [j \in 1..n |-> " "]
Body(n) == [j \in 1..n |-> IF j = 2 /\ n >= 3 THEN " " ELSE "a"]

QuestionTexts ==
    { Spaces(l) \o Body(n) \o Spaces(r) : l \in {0, MaxPad}, r \in {0, MaxPad}, n \in 0..MaxBody }

QuestionValues ==
    { [tag |-> "absent", text |-> <<>>], [tag |-> "number", text |-> <<>>] }
    \cup { [tag |-> "text", text |-> t] : t \in QuestionTexts }

ChoiceLists == { <<>>, <<"A">>, <<"A", "B">>, <<"A", Unknown>> }

ChoicesValues ==
    { [tag |-> "absent", l |-> <<>>], [tag |-> "null", l |-> <<>>] }
    \cup { [tag |-> "list", l |-> c] : c \in ChoiceLists }

AnswerLists == UNION { [1..n -> {"A", "C"}] : n \in 0..MaxAnswers }

AnswerValues ==
    { [tag |-> "absent", s |-> "", l |-> <<>>], [tag |-> "null", s |-> "", l |-> <<>>] }
    \cup { [tag |-> "text", s |-> s, l |-> <<>>] : s \in {"", "A", "C", Unknown, SeeImage} }
    \cup { [tag |-> "list", s |-> "", l |-> a] : a \in AnswerLists }

TypeValues ==
    { [present |-> FALSE, s |-> ""], [present |-> TRUE, s |-> "regular"],
      [present |-> TRUE, s |-> "special"] }

\* "a://a/a", "a", "//a/a", "a:a", "a://[a", "a:///a"
ImgTexts ==
    { <<"a", ":", "/", "/", "a", "/", "a">>, <<"a">>, <<"/", "/", "a", "/", "a">>,
      <<"a", ":", "a">>, <<"a", ":", "/", "/", "[", "a">>, <<"a", ":", "/", "/", "/", "a">> }

ImgValues ==
    { [tag |-> "absent", text |-> <<>>], [tag |-> "number", text |-> <<>>] }
    \cup { [tag |-> "text", text |-> t] : t \in ImgTexts }

Absent == [tag |-> "absent", text |-> <<>>]

\* A question record; mapping = FALSE is an array element that is no JSON object.
Records ==
    [mapping : {TRUE}, question : QuestionValues, choices : ChoicesValues,
     answer : AnswerValues, type : TypeValues, img : ImgValues]

NonMapping ==
    [mapping |-> FALSE, question |-> Absent, choices |-> [tag |-> "absent", l |-> <<>>],
     answer |-> [tag |-> "absent", s |-> "", l |-> <<>>],
     type |-> [present |-> FALSE, s |-> ""], img |-> Absent]

Rec(q, c, a, t, i) ==
    [mapping |-> TRUE, question |-> q, choices |-> c, answer |-> a, type |-> t, img |-> i]

TextQ(n) == [tag |-> "text", text |-> Body(n)]
ListC(c) == [tag |-> "list", l |-> c]
TextA(s) == [tag |-> "text", s |-> s, l |-> <<>>]
NoAnswer == [tag |-> "absent", s |-> "", l |-> <<>>]
NoType == [present |-> FALSE, s |-> ""]
Special == [present |-> TRUE, s |-> "special"]

\* The records that files of several questions are made of.
RunRecords ==
    { Rec(TextQ(6), ListC(<<"A", "B">>), TextA("A"), NoType, Absent),
      Rec(Absent, ListC(<<"A">>), NoAnswer, NoType, Absent),
      Rec(TextQ(2), ListC(<<"A">>), TextA("C"), NoType, [tag |-> "text", text |-> <<"a">>]),
      Rec(TextQ(6), ListC(<<>>), TextA(SeeImage), Special, Absent),
      Rec(TextQ(6), ListC(<<"A">>), TextA("A"), Special, Absent),
      Rec(Absent, ListC(<<"A">>), TextA(Unknown), Special, Absent),
      Rec([tag |-> "number", text |-> <<>>], ListC(<<>>), NoAnswer, NoType, Absent),
      NonMapping }

Contents ==
    { <<r>> : r \in Records \cup {NonMapping} }
    \cup UNION { [1..n -> RunRecords] : n \in 0..MaxQuestions }

FileStates == {"noarg", "missing", "unreadable", "badjson", "notlist", "list"}

VARIABLES
    file,            \* what sys.argv[1] leads to (main, lines 140-147; open/json.load, 37-46)
    content,         \* the array the file holds, when it holds one
    pc,              \* "main", "loop", "returned", "exited", or "crashed" on an uncaught exception
    questions,       \* questions = json.load(f), line 39
    i,               \* position of the next question, enumerate(questions, 1), line 57
    errors,          \* errors, lines 54 and 110: one line per question with errors
    warnings,        \* warnings, lines 55 and 115: one line per question with warnings
    visited,         \* the positions whose loop body has run, in the order it ran
    retval,          \* what validate_checkpoint_json returned: "unset", "True" or "False"
    exitCode,        \* the status of sys.exit, -1 while the process runs
    printedSummary,  \* the summary block (lines 118-137) has been printed
    foundErrors,     \* the N of "Found N error(s)", line 128
    foundWarnings    \* the N of "Found N warning(s)", line 133

vars == <<file, content, pc, questions, i, errors, warnings, visited,
          retval, exitCode, printedSummary, foundErrors, foundWarnings>>


\* ------------------------------------------------------------ text helpers
IsSpace(c) == c \in {" ", "\t", "\n", "\r"}

RECURSIVE LStrip(_)
LStrip(t) == IF t # <<>> /\ IsSpace(Head(t)) THEN LStrip(Tail(t)) ELSE t

RECURSIVE RStrip(_)
RStrip(t) ==
    IF t # <<>> /\ IsSpace(t[Len(t)]) THEN RStrip(SubSeq(t, 1, Len(t) - 1)) ELSE t

\* str.strip()
Strip(t) == RStrip(LStrip(t))

\* x in list
InList(x, l) == \E j \in 1..Len(l) : l[j] = x

\* str.find(c, from): the first position >= from holding c, 0 when there is none
Find(t, c, from) ==
    IF \E j \in from..Len(t) : t[j] = c
    THEN CHOOSE j \in from..Len(t) : t[j] = c /\ \A k \in from..(j - 1) : t[k] # c
    ELSE 0

\* ----------------------------------------------------------- is_valid_url
SchemeChars == {"a"}   \* of the model's alphabet, only the letter is a scheme character

\* urlsplit: the scheme is the text before the first ':' when that text starts
\* with a letter and holds scheme characters only
HasScheme(u) ==
    LET c == Find(u, ":", 1)
    IN c > 1 /\ \A j \in 1..(c - 1) : u[j] \in SchemeChars

UrlScheme(u) == IF HasScheme(u) THEN SubSeq(u, 1, Find(u, ":", 1) - 1) ELSE <<>>

UrlRest(u) == IF HasScheme(u) THEN SubSeq(u, Find(u, ":", 1) + 1, Len(u)) ELSE u

\* urlsplit: the netloc is what follows a leading '//' up to the next '/'
UrlNetloc(u) ==
    LET r == UrlRest(u)
    IN IF Len(r) >= 2 /\ r[1] = "/" /\ r[2] = "/"
       THEN LET e == Find(r, "/", 3)
            IN SubSeq(r, 3, IF e = 0 THEN Len(r) ELSE e - 1)
       ELSE <<>>

\* urlsplit raises ValueError("Invalid IPv6 URL") on an unbalanced bracket
UrlRaises(u) ==
    LET n == UrlNetloc(u)
    IN InList("[", n) # InList("]", n)

is_valid_url(img) ==
    /\ img.tag = "text"                \* urlparse raises on a value that is no text
    /\ ~UrlRaises(img.text)
    /\ UrlScheme(img.text) # <<>>
    /\ UrlNetloc(img.text) # <<>>

\* ------------------------------------------------------------------ rules
Msg(m, name, len, text) == [msg |-> m, name |-> name, len |-> len, text |-> text]

EMissing == "Missing 'question' field"
ETooShort == "Question too short"
ENoAnswer == "Has choices but no answer key"
EUnknown == "Answer is 'Unknown'"
ENotFound == "Answer not found in choices"
EBadImg == "Invalid image URL"
WChoices == "Special question has choices (should be empty)"
WAnswer == "Special question should have answer 'See image for the answer'"

\* question.get('choices', []), question.get('type', 'regular')
GetChoices(q) == IF q.choices.tag = "absent" THEN [tag |-> "list", l |-> <<>>] ELSE q.choices
GetType(q) == IF q.type.present THEN q.type.s ELSE "regular"

\* Python truthiness of the answer: None, "" and [] are falsy
Truthy(a) == (a.tag = "text" /\ a.s # "") \/ (a.tag = "list" /\ a.l # <<>>)

IsUnknown(a) == a.tag = "text" /\ a.s = Unknown

\* The loop body raises: the element is no mapping (lines 62, 71), the question
\* is no text (line 66), or choices is null (line 76).
Raises(q) ==
    \/ ~q.mapping
    \/ q.question.tag \notin {"absent", "text"}
    \/ q.choices.tag = "null"

\* QuestionRule measuring the question as written, without strip()
QuestionRuleNoStrip(q) ==
    IF q.question.tag = "absent"
    THEN << Msg(EMissing, "", 0, <<>>) >>
    ELSE LET question_text == q.question.text
         IN IF Len(question_text) <= MinQuestionLen
            THEN << Msg(ETooShort, "", Len(question_text), question_text) >>
            ELSE <<>>

QuestionRule(q) ==
    IF q.question.tag = "absent"
    THEN << Msg(EMissing, "", 0, <<>>) >>
    ELSE LET question_text == Strip(q.question.text)
         IN IF Len(question_text) <= MinQuestionLen
            THEN << Msg(ETooShort, "", Len(question_text), question_text) >>
            ELSE <<>>

Rule1(choices, answer) ==
    IF ~Truthy(answer) THEN << Msg(ENoAnswer, "", 0, <<>>) >>
    ELSE IF IsUnknown(answer) THEN << Msg(EUnknown, "", 0, <<>>) >>
    ELSE <<>>

\* Rule5Applies without one of its three conditions
Rule5AppliesToFalsy(answer, question_type) ==
    ~IsUnknown(answer) /\ question_type # "special"

Rule5AppliesToUnknown(answer, question_type) ==
    Truthy(answer) /\ question_type # "special"

Rule5AppliesToSpecial(answer, question_type) ==
    Truthy(answer) /\ ~IsUnknown(answer)

Rule5Applies(answer, question_type) ==
    Truthy(answer) /\ ~IsUnknown(answer) /\ question_type # "special"

\* NotFoundIn stopping at the first answer that is missing
RECURSIVE NotFoundInFirst(_, _)
NotFoundInFirst(answers, choices) ==
    IF answers = <<>> THEN <<>>
    ELSE IF InList(Head(answers), choices) THEN NotFoundInFirst(Tail(answers), choices)
    ELSE << Msg(ENotFound, Head(answers), 0, <<>>) >>

RECURSIVE NotFoundIn(_, _)
NotFoundIn(answers, choices) ==
    IF answers = <<>> THEN <<>>
    ELSE (IF InList(Head(answers), choices) THEN <<>>
          ELSE << Msg(ENotFound, Head(answers), 0, <<>>) >>)
         \o NotFoundIn(Tail(answers), choices)

Rule5(choices, answer) ==
    IF answer.tag = "list" THEN NotFoundIn(answer.l, choices)
    ELSE NotFoundIn(<<answer.s>>, choices)

AnswerRule(q) ==
    LET choices == GetChoices(q).l
        answer == q.answer
        question_type == GetType(q)
    IN IF Len(choices) > 0
       THEN Rule1(choices, answer)
            \o (IF Rule5Applies(answer, question_type) THEN Rule5(choices, answer) ELSE <<>>)
       ELSE <<>>

ImageRule(q) ==
    IF q.img.tag # "absent" /\ ~is_valid_url(q.img)
    THEN << Msg(EBadImg, "", 0, q.img.text) >>
    ELSE <<>>

SpecialRule(q) ==
    IF GetType(q) = "special"
    THEN (IF Len(GetChoices(q).l) > 0 THEN << Msg(WChoices, "", 0, <<>>) >> ELSE <<>>)
         \o (IF ~(q.answer.tag = "text" /\ q.answer.s = SeeImage)
             THEN << Msg(WAnswer, "", 0, <<>>) >> ELSE <<>>)
    ELSE <<>>

question_errors(q) == QuestionRule(q) \o AnswerRule(q) \o ImageRule(q)
question_warnings(q) == SpecialRule(q)

\* "Question {i}: {'; '.join(...)}": one line per question, holding its messages
Line(k, msgs) == [index |-> k, msgs |-> msgs]

\* Verdict that lets warnings fail the run
VerdictStrict(errs, warns) == Len(errs) = 0 /\ Len(warns) = 0

\* return len(errors) == 0
Verdict(errs, warns) == Len(errs) = 0

\* LoadsAsList without the isinstance(questions, list) check
LoadsAsListUnchecked(f) == f \in {"list", "notlist"}

LoadsAsList(f) == f = "list"

\* ---------------------------------------------------------------- actions
Init ==
    /\ file \in FileStates
    /\ content \in (IF file = "list" THEN Contents ELSE {<<>>})
    /\ pc = "main"
    /\ questions = <<>>
    /\ i = 0
    /\ errors = <<>>
    /\ warnings = <<>>
    /\ visited = <<>>
    /\ retval = "unset"
    /\ exitCode = -1
    /\ printedSummary = FALSE
    /\ foundErrors = 0
    /\ foundWarnings = 0

\* main: no argument or no such file -> sys.exit(1)
MainUsage ==
    /\ pc = "main"
    /\ file \in {"noarg", "missing"}
    /\ pc' = "exited"
    /\ exitCode' = 1
    /\ UNCHANGED <<file, content, questions, i, errors, warnings, visited, retval,
                   printedSummary, foundErrors, foundWarnings>>

\* open()/json.load() raises, or the top-level value is no list -> return False
LoadError ==
    /\ pc = "main"
    /\ file \notin {"noarg", "missing"}
    /\ ~LoadsAsList(file)
    /\ pc' = "returned"
    /\ retval' = "False"
    /\ UNCHANGED <<file, content, questions, i, errors, warnings, visited, exitCode,
                   printedSummary, foundErrors, foundWarnings>>

LoadList ==
    /\ pc = "main"
    /\ file \notin {"noarg", "missing"}
    /\ LoadsAsList(file)
    /\ questions' = content
    /\ i' = 1
    /\ errors' = <<>>
    /\ warnings' = <<>>
    /\ pc' = "loop"
    /\ UNCHANGED <<file, content, visited, retval, exitCode, printedSummary,
                   foundErrors, foundWarnings>>

\* One iteration of the for loop.  An exception raised by the body is caught
\* nowhere: it leaves validate_checkpoint_json and main, and the interpreter
\* exits with status 1.
CheckQuestion ==
    /\ pc = "loop"
    /\ i <= Len(questions)
    /\ LET question == questions[i]
       IN IF Raises(question)
          THEN /\ pc' = "crashed"
               /\ exitCode' = 1
               /\ UNCHANGED <<i, errors, warnings, visited>>
          ELSE /\ errors' = (IF question_errors(question) # <<>>
                             THEN Append(errors, Line(i, question_errors(question)))
                             ELSE errors)
               /\ warnings' = (IF question_warnings(question) # <<>>
                               THEN Append(warnings, Line(i, question_warnings(question)))
                               ELSE warnings)
               /\ visited' = Append(visited, i)
               /\ i' = i + 1
               /\ UNCHANGED <<pc, exitCode>>
    /\ UNCHANGED <<file, content, questions, retval, printedSummary, foundErrors,
                   foundWarnings>>

Summary ==
    /\ pc = "loop"
    /\ i > Len(questions)
    /\ printedSummary' = TRUE
    /\ foundErrors' = Len(errors)
    /\ foundWarnings' = Len(warnings)
    /\ retval' = (IF Verdict(errors, warnings) THEN "True" ELSE "False")
    /\ pc' = "returned"
    /\ UNCHANGED <<file, content, questions, i, errors, warnings, visited, exitCode>>

\* main: sys.exit(0) on success, sys.exit(1) otherwise
MainExit ==
    /\ pc = "returned"
    /\ exitCode' = (IF retval = "True" THEN 0 ELSE 1)
    /\ pc' = "exited"
    /\ UNCHANGED <<file, content, questions, i, errors, warnings, visited, retval,
                   printedSummary, foundErrors, foundWarnings>>

Next == MainUsage \/ LoadError \/ LoadList \/ CheckQuestion \/ Summary \/ MainExit

Spec == Init /\ [][Next]_vars

TypeOK ==
    /\ pc \in {"main", "loop", "returned", "exited", "crashed"}
    /\ retval \in {"unset", "True", "False"}
    /\ exitCode \in {-1, 0, 1}
    /\ i \in 0..(Len(questions) + 1)


\* ----------------------------------------------------------------- report
\* The messages reported for question k: those of its line, none without a line
MsgsOf(lines, k) ==
    IF \E j \in 1..Len(lines) : lines[j].index = k
    THEN lines[CHOOSE j \in 1..Len(lines) : lines[j].index = k].msgs
    ELSE <<>>

ErrorsOf(k) == MsgsOf(errors, k)
WarningsOf(k) == MsgsOf(warnings, k)

Count(msgs, m) == Cardinality({ j \in 1..Len(msgs) : msgs[j].msg = m })

RECURSIVE NamesOf(_, _)
NamesOf(msgs, m) ==
    IF msgs = <<>> THEN <<>>
    ELSE (IF Head(msgs).msg = m THEN << Head(msgs).name >> ELSE <<>>) \o NamesOf(Tail(msgs), m)

RECURSIVE TotalMsgs(_)
TotalMsgs(lines) == IF lines = <<>> THEN 0 ELSE Len(Head(lines).msgs) + TotalMsgs(Tail(lines))

Evaluated == { visited[j] : j \in 1..Len(visited) }

ChoicesOf(k) == GetChoices(questions[k]).l
AnswerOf(k) == questions[k].answer
AnswerElems(a) == IF a.tag = "list" THEN a.l ELSE << a.s >>

\* the answers of question k that are no member of its choices, in order
MissingOf(k) == SelectSeq(AnswerElems(AnswerOf(k)), LAMBDA x : ~InList(x, ChoicesOf(k)))

\* length of a text between its first and its last character that is no blank
TrimmedLen(t) ==
    LET solid == { j \in 1..Len(t) : ~IsSpace(t[j]) }
    IN IF solid = {} THEN 0
       ELSE (CHOOSE j \in solid : \A k \in solid : k <= j)
            - (CHOOSE j \in solid : \A k \in solid : k >= j) + 1

\* question k is not special and its answer is truthy and not "Unknown"
PlainAnswered(k) ==
    /\ GetType(questions[k]) # "special"
    /\ Truthy(AnswerOf(k))
    /\ ~IsUnknown(AnswerOf(k))

SpecialWithChoices(k) ==
    /\ GetType(questions[k]) = "special"
    /\ Len(ChoicesOf(k)) > 0
    /\ AnswerOf(k).tag = "text"
    /\ AnswerOf(k).s = SeeImage

QuestionLongEnough(k) ==
    /\ questions[k].question.tag = "text"
    /\ TrimmedLen(questions[k].question.text) > 5

ImgAbsentOrValid(k) ==
    questions[k].img.tag = "absent" \/ is_valid_url(questions[k].img)

Ended == pc \in {"returned", "exited", "crashed"}

\* ------------------------------------------------------------------ claims

\* C1: when a file loads as a list, validate_checkpoint_json returns success,
\* and main exits with code 0, if and only if no question produced an error;
\* warnings never change the verdict.
C1_VerdictIffNoErrors ==
    file = "list" =>
        /\ (pc \in {"returned", "exited"} => (retval = "True" <=> errors = <<>>))
        /\ (pc = "exited" => (exitCode = 0 <=> retval = "True"))
        /\ (exitCode = 0 => pc = "exited")
        /\ (Ended /\ errors # <<>> => exitCode # 0)

C1_Witness == pc = "exited" /\ exitCode = 0 /\ warnings # <<>> /\ errors = <<>>

C3_TotalsAreSums ==
    printedSummary =>
        /\ foundErrors = TotalMsgs(errors)
        /\ foundWarnings = TotalMsgs(warnings)

\* C4: once the input has loaded as a list, no exception raised while a
\* question is evaluated escapes: the run never aborts.
C4_NeverAborts == file = "list" => pc # "crashed"

\* C5: every question at positions 1..n is evaluated exactly once, in
\* ascending order, and the run then ends with the summary.
C5_AllEvaluatedThenSummary ==
    /\ visited = [k \in 1..Len(visited) |-> k]
    /\ (file = "list" /\ Ended =>
            /\ visited = [k \in 1..Len(questions) |-> k]
            /\ printedSummary)

\* C6: a question with non-empty choices and a missing or falsy answer gets
\* the error "Has choices but no answer key" and neither a "not found in
\* choices" nor an "Answer is 'Unknown'" error.
C6_NoAnswerKeyOnly ==
    \A k \in Evaluated :
        (Len(ChoicesOf(k)) > 0 /\ ~Truthy(AnswerOf(k))) =>
            /\ Count(ErrorsOf(k), ENoAnswer) = 1
            /\ Count(ErrorsOf(k), ENotFound) = 0
            /\ Count(ErrorsOf(k), EUnknown) = 0

C6_Witness ==
    \E k \in Evaluated :
        /\ Len(ChoicesOf(k)) > 0
        /\ AnswerOf(k).tag = "text"
        /\ AnswerOf(k).s = ""
        /\ Count(ErrorsOf(k), ENoAnswer) = 1

\* C7: when the file cannot be read or parsed, or holds no array, the run
\* fails (exit 1), no question is evaluated, no error or warning is produced
\* and no summary is computed.
C7_LoadFailureIsFatal ==
    file \in {"missing", "unreadable", "badjson", "notlist"} =>
        /\ visited = <<>> /\ errors = <<>> /\ warnings = <<>>
        /\ ~printedSummary
        /\ pc # "loop"
        /\ retval # "True"
        /\ (pc = "returned" => retval = "False")
        /\ (pc = "exited" => exitCode = 1)
        /\ exitCode # 0

C7_Witness == file = "notlist" /\ pc = "exited" /\ retval = "False" /\ exitCode = 1

\* C8 as stated: a special question with non-empty choices and the answer
\* "See image for the answer" produces exactly one warning, the one about
\* choices, and zero errors.
C8_Original ==
    \A k \in Evaluated :
        SpecialWithChoices(k) =>
            /\ Len(WarningsOf(k)) = 1
            /\ WarningsOf(k)[1].msg = WChoices
            /\ ErrorsOf(k) = <<>>

\* C8 as amended: such a question produces exactly one warning, the one about
\* choices, and no error about its answer; it produces zero errors when its
\* question is present with a trimmed length above 5 and its img is absent or
\* a valid URL.
C8_SpecialWithChoices ==
    \A k \in Evaluated :
        SpecialWithChoices(k) =>
            /\ Len(WarningsOf(k)) = 1
            /\ WarningsOf(k)[1].msg = WChoices
            /\ \A j \in 1..Len(ErrorsOf(k)) : ErrorsOf(k)[j].msg \in {EMissing, ETooShort, EBadImg}
            /\ (QuestionLongEnough(k) /\ ImgAbsentOrValid(k) => ErrorsOf(k) = <<>>)

C8_Witness ==
    \E k \in Evaluated :
        /\ SpecialWithChoices(k)
        /\ QuestionLongEnough(k)
        /\ questions[k].img.tag = "text"
        /\ Len(WarningsOf(k)) = 1
        /\ ErrorsOf(k) = <<>>

\* C9: a question whose answer is "Unknown" and whose choices are non-empty
\* gets the error "Answer is 'Unknown'", whatever the choices hold and
\* whatever its type, and no "not found in choices" error.
C9_UnknownAnswer ==
    \A k \in Evaluated :
        (IsUnknown(AnswerOf(k)) /\ Len(ChoicesOf(k)) > 0) =>
            /\ Count(ErrorsOf(k), EUnknown) = 1
            /\ Count(ErrorsOf(k), ENotFound) = 0
            /\ Count(ErrorsOf(k), ENoAnswer) = 0

C9_Witness ==
    \E k \in Evaluated :
        /\ IsUnknown(AnswerOf(k))
        /\ Len(ChoicesOf(k)) > 0
        /\ ~InList(Unknown, ChoicesOf(k))
        /\ GetType(questions[k]) = "special"
        /\ Count(ErrorsOf(k), EUnknown) = 1

\* C10: a question field gets a "too short" error if and only if its length
\* after trimming blanks is at most 5; a question without the field gets
\* exactly "Missing 'question' field" and no length error.
C10_QuestionLength ==
    \A k \in Evaluated :
        LET q == questions[k].question
            e == ErrorsOf(k)
        IN IF q.tag = "absent"
           THEN Count(e, EMissing) = 1 /\ Count(e, ETooShort) = 0
           ELSE /\ Count(e, EMissing) = 0
                /\ Count(e, ETooShort) = (IF TrimmedLen(q.text) <= 5 THEN 1 ELSE 0)
                /\ \A j \in 1..Len(e) : e[j].msg = ETooShort => e[j].len = TrimmedLen(q.text)

C10_Witness ==
    \E k \in Evaluated :
        /\ questions[k].question.tag = "text"
        /\ Len(questions[k].question.text) > 5
        /\ TrimmedLen(questions[k].question.text) = 5
        /\ Count(ErrorsOf(k), ETooShort) = 1

====
